---- MODULE Spec2Model ----
(***************************************************************************)
(* A model of the find3 server's passive (reverse) aggregator, its ingest  *)
(* pipeline and its delivery fan-out.                                      *)
(*                                                                         *)
(* Strings are TLA+ strings; maps are functions with finite domains; a Go  *)
(* nil map is a function with empty domain plus a flag where writing to it *)
(* matters.  Time is counted in seconds, fingerprint timestamps in ms.     *)
(***************************************************************************)
EXTENDS Integers, Sequences, FiniteSets, TLC

(* ------------------------------ bounds -------------------------------- *)
MaxReq == 2        \* /passive requests served in one behaviour
MaxSettings == 1   \* passive-settings requests served in one behaviour
MaxLearn == 1      \* /learn requests served in one behaviour
MaxLocate == 1     \* sendOutLocation calls in one behaviour
MaxCalls == 2      \* calls of all kinds served in one behaviour
TickStep == 91     \* seconds the clock advances in one step
MaxTime == 182     \* the clock stops here
MaxDatas == 3      \* samples in a stored window the transposition is run on
MaxWriters == 2    \* AddSensor calls on one family store in one behaviour
MaxPredictions == 2 \* AddPrediction calls on one family store in one behaviour
MaxGPSCalls == 2    \* SetGPS calls on one family store in one behaviour

(* ------------------------- program constants -------------------------- *)
DefaultTimeBlock == 90   \* 90 * time.Second
SleepMs == 10            \* time.Sleep(10 * time.Millisecond)
MsPerSecond == 1000

(* ------------------------------- data --------------------------------- *)
EmptyMap == <<>>
ZeroGPS == [lat |-> 0, lon |-> 0, alt |-> 0]

\* strings.TrimSpace(strings.ToLower(s)) on the family names clients send
Normalize(s) ==
  CASE s = " Work" -> "work"
    [] s = "HOME" -> "home"
    [] s = "Home" -> "home"
    [] s = "  " -> ""
    [] OTHER -> s

\* the number of (category, mac) observations of a fingerprint
RECURSIVE SumSizes(_, _)
SumSizes(sensors, cats) ==
  IF cats = {} THEN 0
  ELSE LET c == CHOOSE x \in cats : TRUE
       IN Cardinality(DOMAIN sensors[c]) + SumSizes(sensors, cats \ {c})

NumPoints(sensors) == SumSizes(sensors, DOMAIN sensors)

\* SensorData.Validate: nil error iff the fingerprint is well formed
Validate(s) ==
  /\ Normalize(s.family) # ""
  /\ s.timestamp > 0
  /\ \E c \in DOMAIN s.sensors : DOMAIN s.sensors[c] # {}

SD(family, device, ts, location, gps, sensors) ==
  [family |-> family, device |-> device, timestamp |-> ts,
   location |-> location, gps |-> gps, sensors |-> sensors, rid |-> 0]

\* bodies scanners post to /passive
PassiveBodies ==
  { SD("home", "s1", 1, "", ZeroGPS, "bluetooth" :> ("aa:bb" :> -50)),
    SD("HOME", "s2", 2, "", ZeroGPS,
       "bluetooth" :> ("aa:bb" :> -70 @@ "cc:dd" :> -55)),
    SD(" Work", "s1", 3, "", ZeroGPS, "bluetooth" :> ("aa:bb" :> -60)),
    SD("home", "s3", 5, "", ZeroGPS,
       "wifi" :> ("x-y" :> -30) @@ "wifi-x" :> ("y" :> -35)),
    SD("home", "s1", 4, "", ZeroGPS, "bluetooth" :> EmptyMap) }

(* ----------------------- ReverseRollingData --------------------------- *)
\* the defaults handlerReverse builds when the record cannot be read
DefaultRollingData(family) ==
  [family |-> family, hasData |-> FALSE, timestamp |-> 0,
   timeBlock |-> DefaultTimeBlock, datas |-> <<>>,
   deviceLocation |-> EmptyMap, deviceGPS |-> EmptyMap, gpsNil |-> TRUE,
   minimumPassive |-> 0]

\* the defaults handlerReverseSettings builds: DeviceGPS is made too
DefaultSettingsData(family) ==
  [DefaultRollingData(family) EXCEPT !.gpsNil = FALSE]

(* --------------------- transposition (the merge) ---------------------- *)
\* a naming that forgets the category
TrackedNameMacOnly(sensor, mac) == mac

TrackedName(sensor, mac) == sensor \o "-" \o mac

ScannerKey(device, sensor) == device \o "-" \o sensor

Lookup(m, k, dflt) == IF k \in DOMAIN m THEN m[k] ELSE dflt

\* time.Now().UTC().UnixNano() / int64(time.Millisecond), after `created`
\* sleeps of SleepMs since the merge began at second `t`
\* a stamp taken with no delay between two creations
StampMsWithoutSleep(t, created) == t * MsPerSecond

\* lines 657 and 661: the millisecond at which the fingerprint is created, 10 ms
\* of sleep after each one created before it
StampMs(t, created) == t * MsPerSecond + SleepMs * created

\* the SensorData literal a first sighting of `name` creates; only the
\* category of that first sighting gets an inner map
\* a fingerprint that takes nothing from the record's maps
NewFingerprintUnlabelled(family, name, sensor, rd, ts) ==
  [family |-> family, device |-> name, timestamp |-> ts,
   location |-> "", gps |-> ZeroGPS,
   sensors |-> (sensor :> EmptyMap), rid |-> 0]

NewFingerprint(family, name, sensor, rd, ts) ==
  [family |-> family, device |-> name, timestamp |-> ts,
   location |-> Lookup(rd.deviceLocation, name, ""),
   gps |-> Lookup(rd.deviceGPS, name, ZeroGPS),
   sensors |-> (sensor :> EmptyMap), rid |-> 0]

EmptyAcc == [panic |-> FALSE, map |-> EmptyMap, created |-> 0]

\* a merge in which the first value written under a scanner key stays
MergeOneFirstWins(acc, data, e, rd, family, t) ==
  LET sensor == e[1]
      mac == e[2]
      rssi == data.sensors[sensor][mac]
      name == TrackedName(sensor, mac)
      acc1 == IF name \in DOMAIN acc.map THEN acc
              ELSE [acc EXCEPT
                      !.map = (name :> NewFingerprint(family, name, sensor, rd,
                                         StampMs(t, acc.created))) @@ @,
                      !.created = @ + 1]
      fp == acc1.map[name]
      inner == fp.sensors[sensor] @@ (ScannerKey(data.device, sensor) :> rssi)
  IN IF sensor \notin DOMAIN fp.sensors
       THEN [acc1 EXCEPT !.panic = TRUE]
       ELSE [acc1 EXCEPT !.map[name].sensors[sensor] = inner]

\* the body of the innermost loop for one (sensor, mac) of one sample; writing
\* under a category whose inner map was never made is a write to a nil map
MergeOne(acc, data, e, rd, family, t) ==
  LET sensor == e[1]
      mac == e[2]
      rssi == data.sensors[sensor][mac]
      name == TrackedName(sensor, mac)
      acc1 == IF name \in DOMAIN acc.map THEN acc
              ELSE [acc EXCEPT
                      !.map = (name :> NewFingerprint(family, name, sensor, rd,
                                         StampMs(t, acc.created))) @@ @,
                      !.created = @ + 1]
      fp == acc1.map[name]
      inner == (ScannerKey(data.device, sensor) :> rssi) @@ fp.sensors[sensor]
  IN IF sensor \notin DOMAIN fp.sensors
       THEN [acc1 EXCEPT !.panic = TRUE]
       ELSE [acc1 EXCEPT !.map[name].sensors[sensor] = inner]

RECURSIVE MergeEntries(_, _, _, _, _, _)
MergeEntries(acc, data, es, rd, family, t) ==
  IF es = <<>> \/ acc.panic THEN acc
  ELSE MergeEntries(MergeOne(acc, data, Head(es), rd, family, t),
                    data, Tail(es), rd, family, t)

RECURSIVE MergeDatas(_, _, _, _, _, _)
MergeDatas(acc, datas, ords, rd, family, t) ==
  IF datas = <<>> \/ acc.panic THEN acc
  ELSE MergeDatas(MergeEntries(acc, Head(datas), Head(ords), rd, family, t),
                  Tail(datas), Tail(ords), rd, family, t)

\* the (sensor, mac) pairs of one sample
Entries(d) ==
  UNION {{<<c, m>> : m \in DOMAIN d.sensors[c]} : c \in DOMAIN d.sensors}

\* the orders in which the two nested `range` loops may visit them
RangeOrders(d) ==
  LET E == Entries(d)
      n == Cardinality(E)
  IN {o \in [1..n -> E] :
        /\ \A i, j \in 1..n : o[i] = o[j] => i = j
        /\ \A i, j, k \in 1..n :
             (i < j /\ j < k /\ o[i][1] = o[k][1]) => o[j][1] = o[i][1]}

DatasOrders(datas) ==
  LET n == Len(datas)
  IN {os \in [1..n -> UNION {RangeOrders(datas[i]) : i \in 1..n}] :
        \A i \in 1..n : os[i] \in RangeOrders(datas[i])}

(* ------------------------------ state --------------------------------- *)
VARIABLES
  now,          \* the wall clock, in seconds
  useMQTT,      \* the UseMQTT switch, set once at startup
  keystore,     \* the "ReverseRollingData" row of the server's store: <<>> or <<record>>
  dbClosed,     \* Close was called on the server's store handle
  req,          \* the /passive requests (handlerReverse)
  task,         \* their detached parseRollingData goroutines
  sreq,         \* the passive-settings requests (handlerReverseSettings)
  crashed,      \* a goroutine panicked outside any recover: the process is gone
  sensorsTable, \* the rows of the sensors tables, each tagged with its family store
  gpsTable,     \* the rows of the gps tables, each tagged with its family store
  pending,      \* detached sendOutData goroutines that have not run yet
  flushCount,   \* history: how many transpositions each accepted sample was part of
  calls,        \* history: the processSensorData calls, in order
  delivered,    \* history: the sendOutData runs, in order
  columns,      \* one family store: the columns of its sensors table
  rows,         \* one family store: the rows of its sensors table, as stored
  dict,         \* one family store: the "sensorDataStringSizer" keystore row
  writer,       \* the AddSensor calls on that store, statement by statement
  predictions,  \* one family store: the location_predictions table
  predLog,      \* history: the AddPrediction calls, in order
  openTx,       \* transactions begun and neither committed nor rolled back
  gpsLog,       \* history: the SetGPS calls on the store, in order
  opened,       \* a second family store: Open returned its handle
  tables,       \* that store's schema: table name -> column names
  kv,           \* that store's keystore rows, in insertion order
  oplog,        \* history: the MakeTables, Set and Get calls on that store
  replies       \* history: what the locate and efficacy calls returned

passiveVars == <<keystore, dbClosed, req, task, sreq, flushCount>>

ingestVars == <<sensorsTable, gpsTable, pending, calls>>

schemaVars == <<opened, tables, kv, oplog>>

dbVars == <<columns, rows, dict, writer, predictions, predLog, openTx, gpsLog,
            schemaVars, replies>>

serverVars == <<now, useMQTT, keystore, dbClosed, req, task, sreq, crashed,
                sensorsTable, gpsTable, pending, flushCount, calls, delivered>>

vars == <<serverVars, dbVars>>

NoData == SD("", "", 0, "", ZeroGPS, EmptyMap)

IdleReq == [pc |-> "idle", d |-> NoData, rd |-> DefaultRollingData(""), ok |-> FALSE]

IdleTask ==
  [pc |-> "none", family |-> "", rd |-> DefaultRollingData(""),
   sensorMap |-> EmptyMap, flushed |-> FALSE, left |-> {}]

\* the goroutine returned; its locals are gone
DoneTask == [IdleTask EXCEPT !.pc = "done"]

NoSettings ==
  [family |-> "", device |-> "", location |-> "", lat |-> 0, lon |-> 0,
   alt |-> 0, window |-> 0, minimum_passive |-> 0]

IdleSettings ==
  [pc |-> "idle", d |-> NoSettings, rd |-> DefaultRollingData(""), ok |-> FALSE]

\* bodies posted to /api/v1/settings/passive
SettingsBodies ==
  { [NoSettings EXCEPT !.family = "home", !.device = "bluetooth-aa:bb",
                       !.location = "kitchen", !.lat = 1, !.lon = 2],
    [NoSettings EXCEPT !.family = "home", !.device = "bluetooth-aa:bb"],
    [NoSettings EXCEPT !.family = "home", !.window = TickStep,
                       !.minimum_passive = 2] }

(* ------------------------- one family store -------------------------- *)
\* the sensors table as the statements of AddSensor and getRows take it to be
StoreColumns == {"timestamp", "deviceid", "locationid", "bluetooth"}

\* the locals of one AddSensor call: the fingerprint, the dictionary it
\* loaded, previousCurrent, the error it returned; `dup` records that the
\* insert was refused because the timestamp already had a row
IdleWriter ==
  [pc |-> "idle", s |-> NoData, keys |-> <<>>, previousCurrent |-> 0,
   err |-> "", dup |-> FALSE]

InitDb ==
  /\ columns = StoreColumns
  /\ rows = {}
  /\ dict = <<>>
  /\ writer = [i \in 1..MaxWriters |-> IdleWriter]
  /\ predictions = EmptyMap
  /\ predLog = <<>>
  /\ openTx = 0
  /\ gpsLog = <<>>
  /\ opened = FALSE
  /\ tables = EmptyMap
  /\ kv = <<>>
  /\ oplog = <<>>
  /\ replies = <<>>

Init ==
  /\ InitDb
  /\ now = 0
  /\ useMQTT \in BOOLEAN
  /\ keystore = <<>>
  /\ dbClosed = FALSE
  /\ req = [i \in 1..MaxReq |-> IdleReq]
  /\ task = [i \in 1..MaxReq |-> IdleTask]
  /\ sreq = [i \in 1..MaxSettings |-> IdleSettings]
  /\ crashed = FALSE
  /\ sensorsTable = {}
  /\ gpsTable = {}
  /\ pending = <<>>
  /\ flushCount = [i \in 1..MaxReq |-> 0]
  /\ calls = <<>>
  /\ delivered = <<>>

(* ----------------------------- keystore ------------------------------- *)
\* whether a statement on the server's handle can succeed at all
DbUsable == ~dbClosed

\* Database.Get("ReverseRollingData", &v): nil error only if the handle is
\* open and the row exists
CanGet == DbUsable /\ keystore # <<>>

\* the outcomes of one statement: TRUE it succeeds, FALSE it fails (the
\* backend may fail any statement)
Outcomes(possible) == IF possible THEN {TRUE, FALSE} ELSE {FALSE}

\* the calls served or being served
Started ==
  Cardinality({i \in 1..MaxReq : req[i].pc # "idle"})
  + Cardinality({k \in 1..MaxSettings : sreq[k].pc # "idle"})
  + Cardinality({k \in 1..Len(calls) : calls[k].src = "handler"})
  + Cardinality({k \in 1..Len(delivered) : delivered[k].src = "locate"})

(* --------------------------- handlerReverse --------------------------- *)
\* the handler answered {success: okv}; its locals are gone
Answer(okv) == [IdleReq EXCEPT !.pc = "done", !.ok = okv]

\* lines 589-603: the record after the sample was appended
AppendSample(rd0, d, t) ==
  LET rd1 == IF rd0.timeBlock = 0 THEN [rd0 EXCEPT !.timeBlock = DefaultTimeBlock]
             ELSE rd0
      rd2 == IF ~rd1.hasData
             THEN [rd1 EXCEPT !.timestamp = t, !.datas = <<>>, !.hasData = TRUE]
             ELSE rd1
  IN [rd2 EXCEPT !.datas = Append(@, d)]

\* bind, validate, normalize, read the record, append the sample
HR_Get(i) ==
  /\ ~crashed
  /\ req[i].pc = "idle"
  /\ Started < MaxCalls
  /\ i > 1 => req[i - 1].pc # "idle"
  /\ \E body \in PassiveBodies, got \in Outcomes(CanGet) :
       LET d0 == [body EXCEPT !.rid = i]
           d == [d0 EXCEPT !.family = Normalize(@)]
           rd0 == IF got THEN keystore[1] ELSE DefaultRollingData(d.family)
       IN IF ~Validate(d0) \/ DOMAIN d.sensors = {}
            THEN req' = [req EXCEPT ![i] = Answer(FALSE)]
            ELSE req' = [req EXCEPT ![i] =
                           [@ EXCEPT !.pc = "got", !.d = d,
                                     !.rd = AppendSample(rd0, d, now)]]
  /\ UNCHANGED <<now, useMQTT, keystore, dbClosed, task, sreq, crashed,
                 flushCount, ingestVars, delivered>>
  /\ UNCHANGED dbVars

\* write the record back; on success answer success and detach the parse
HR_Set(i) ==
  /\ ~crashed
  /\ req[i].pc = "got"
  /\ \E set \in Outcomes(DbUsable) :
       /\ req' = [req EXCEPT ![i] = Answer(set)]
       /\ IF set
            THEN /\ keystore' = <<req[i].rd>>
                 /\ task' = [task EXCEPT ![i] =
                               [@ EXCEPT !.pc = "start", !.family = req[i].d.family]]
            ELSE UNCHANGED <<keystore, task>>
  /\ UNCHANGED <<now, useMQTT, dbClosed, sreq, crashed, flushCount, ingestVars,
                 delivered>>
  /\ UNCHANGED dbVars

(* --------------------------- ingest pipeline -------------------------- *)
LearnGPS == [lat |-> 1, lon |-> 2, alt |-> 3]

\* bodies handed to processSensorData by the handlers
LearnBodies ==
  { SD("default", "phone", 5000, "kitchen", ZeroGPS, "bluetooth" :> ("aa:bb" :> -40)),
    SD("Home", "phone", 5000, "hall", LearnGPS,
       "bluetooth" :> ("aa:bb" :> -45) @@ "wifi" :> ("cc:dd" :> -60)),
    SD("  ", "phone", 6000, "kitchen", LearnGPS, "bluetooth" :> ("aa:bb" :> -40)),
    SD("home", "phone", 7000, "", LearnGPS, "bluetooth" :> EmptyMap) }

HasRow(table, fam, ts) == \E r \in table : r.family = fam /\ r.timestamp = ts

\* Database.AddSensor on the store of family `fam`: one plain INSERT keyed by
\* timestamp, holding the bluetooth category's map
AddSensor(table, fam, s, okv) ==
  IF okv /\ ~HasRow(table, fam, s.timestamp)
    THEN [err |-> "", table |-> table \cup
            {[family |-> fam, timestamp |-> s.timestamp, deviceid |-> s.device,
              locationid |-> s.location,
              bluetooth |-> Lookup(s.sensors, "bluetooth", EmptyMap)]}]
    ELSE [err |-> "AddSensor, execute", table |-> table]

\* Database.SetGPS on the store of family `fam`: one row per (category, mac)
SetGPS(table, fam, s, okv) ==
  IF okv
    THEN [err |-> "", table |-> table \cup
            {[family |-> fam, timestamp |-> s.timestamp,
              mac |-> TrackedName(e[1], e[2]), loc |-> s.location,
              lat |-> s.gps.lat, lon |-> s.gps.lon, alt |-> s.gps.alt] :
               e \in Entries(s)}]
    ELSE [err |-> "SetGPS", table |-> table]

HasGPS(s) == s.gps.lon # 0 /\ s.gps.lat # 0

\* a save that goes to the store without validating
SaveSensorDataUnchecked(s, addOk, gpsOk) ==
  LET fam == Normalize(s.family)
      add == AddSensor(sensorsTable, fam, s, addOk)
      g == IF HasGPS(s) THEN SetGPS(gpsTable, fam, s, gpsOk)
           ELSE [err |-> "", table |-> gpsTable]
  IN [err |-> add.err, sensors |-> add.table, gps |-> g.table,
      addTried |-> TRUE, addErr |-> add.err,
      gpsTried |-> HasGPS(s), gpsErr |-> g.err]

\* api.SaveSensorData: validate, open the family's store, AddSensor, SetGPS
SaveSensorData(s, addOk, gpsOk) ==
  IF ~Validate(s)
    THEN [err |-> "problem validating data", sensors |-> sensorsTable,
          gps |-> gpsTable, addTried |-> FALSE, addErr |-> "",
          gpsTried |-> FALSE, gpsErr |-> ""]
    ELSE LET fam == Normalize(s.family)
             add == AddSensor(sensorsTable, fam, s, addOk)
             g == IF HasGPS(s) THEN SetGPS(gpsTable, fam, s, gpsOk)
                  ELSE [err |-> "", table |-> gpsTable]
         IN [err |-> add.err, sensors |-> add.table, gps |-> g.table,
             addTried |-> TRUE, addErr |-> add.err,
             gpsTried |-> HasGPS(s), gpsErr |-> g.err]

\* processSensorData(p, justSave...): justSave is the variadic argument list
ProcessSensorData(p, justSave, addOk, gpsOk) ==
  LET sv == SaveSensorData(p, addOk, gpsOk)
      base == [err |-> sv.err, sensors |-> sv.sensors, gps |-> sv.gps,
               addTried |-> sv.addTried, addErr |-> sv.addErr,
               gpsTried |-> sv.gpsTried, gpsErr |-> sv.gpsErr,
               panic |-> FALSE, launch |-> FALSE]
  IN IF sv.err # "" THEN base
     ELSE IF Len(justSave) < 0 THEN [base EXCEPT !.launch = TRUE]
     ELSE IF Len(justSave) = 0 THEN [base EXCEPT !.panic = TRUE]
     ELSE [base EXCEPT !.launch = ~justSave[1]]

\* what the history keeps of one processSensorData call
CallRecord(src, p, justSave, minimumPassive, r) ==
  [src |-> src, p |-> p, justSave |-> justSave, minimumPassive |-> minimumPassive,
   err |-> r.err, panic |-> r.panic, launch |-> r.launch,
   addTried |-> r.addTried, addErr |-> r.addErr,
   gpsTried |-> r.gpsTried, gpsErr |-> r.gpsErr]

HandlerCalls == Cardinality({k \in 1..Len(calls) : calls[k].src = "handler"})

\* one processSensorData call made while serving a request
Ingest(justSave) ==
  /\ ~crashed
  /\ HandlerCalls < MaxLearn
  /\ Started < MaxCalls
  /\ \E s \in LearnBodies, addOk \in BOOLEAN :
     \E gpsOk \in Outcomes(HasGPS(s)) :
       LET r == ProcessSensorData(s, justSave, addOk, gpsOk)
       IN /\ sensorsTable' = r.sensors
          /\ gpsTable' = r.gps
          /\ pending' = IF r.launch THEN Append(pending, s) ELSE pending
          /\ calls' = Append(calls, CallRecord("handler", s, justSave, 0, r))
  /\ UNCHANGED <<now, useMQTT, passiveVars, crashed, delivered>>
  /\ UNCHANGED dbVars

\* handlerLearn: processSensorData(s, true)
HandlerLearn == Ingest(<<TRUE>>)

\* processSensorData(s, false): the form that asks for a delivery.  The
\* source has no call site of this form; it is a step of SpecIngest only
IngestAndDeliver == Ingest(<<FALSE>>)

(* -------------------------- parseRollingData -------------------------- *)
Expired(rd, t) == rd.hasData /\ t - rd.timestamp > rd.timeBlock

\* a reset that also empties datas
CloseWindowAndClear(rd) == [rd EXCEPT !.hasData = FALSE, !.datas = <<>>]

\* line 668: the flushed window is marked on the task's copy; Datas stay
CloseWindow(rd) == [rd EXCEPT !.hasData = FALSE]

\* lines 628-669: read the record and, when the window expired, transpose it
P_Get(i) ==
  /\ ~crashed
  /\ task[i].pc = "start"
  /\ \E got \in Outcomes(CanGet) :
       IF ~got
         THEN /\ task' = [task EXCEPT ![i] = DoneTask]
              /\ UNCHANGED <<crashed, flushCount>>
         ELSE LET rd == keystore[1]
              IN IF ~Expired(rd, now)
                   THEN /\ task' = [task EXCEPT ![i] =
                                      [@ EXCEPT !.pc = "merged", !.rd = rd]]
                        /\ UNCHANGED <<crashed, flushCount>>
                   ELSE \E ords \in DatasOrders(rd.datas) :
                          LET acc == MergeDatas(EmptyAcc, rd.datas, ords, rd,
                                                task[i].family, now)
                          IN /\ crashed' = acc.panic
                             /\ flushCount' =
                                  [r \in 1..MaxReq |->
                                     IF \E k \in 1..Len(rd.datas) : rd.datas[k].rid = r
                                       THEN flushCount[r] + 1 ELSE flushCount[r]]
                             /\ task' = [task EXCEPT ![i] =
                                  [@ EXCEPT !.pc = IF acc.panic THEN "panic"
                                                   ELSE "merged",
                                            !.rd = CloseWindow(rd),
                                            !.sensorMap = acc.map,
                                            !.flushed = TRUE]]
  /\ UNCHANGED <<now, useMQTT, keystore, dbClosed, req, sreq, ingestVars, delivered>>
  /\ UNCHANGED dbVars

\* line 670: db.Set("ReverseRollingData", rollingData), its error dropped
P_Set(i) ==
  /\ ~crashed
  /\ task[i].pc = "merged"
  /\ \E set \in Outcomes(DbUsable) :
       keystore' = IF set THEN <<task[i].rd>> ELSE keystore
  /\ task' = [task EXCEPT ![i] = [@ EXCEPT !.pc = "written"]]
  /\ UNCHANGED <<now, useMQTT, dbClosed, req, sreq, crashed, flushCount,
                 ingestVars, delivered>>
  /\ UNCHANGED dbVars

\* line 671: db.Close() on the server's handle
P_Close(i) ==
  /\ ~crashed
  /\ task[i].pc = "written"
  /\ dbClosed' = TRUE
  /\ task' = [task EXCEPT ![i] =
                IF DOMAIN task[i].sensorMap = {} THEN DoneTask
                ELSE [@ EXCEPT !.pc = "emit", !.left = DOMAIN task[i].sensorMap]]
  /\ UNCHANGED <<now, useMQTT, keystore, req, sreq, crashed, flushCount,
                 ingestVars, delivered>>
  /\ UNCHANGED dbVars

\* lines 672-687: one iteration of the emission loop
P_Emit(i) ==
  /\ ~crashed
  /\ task[i].pc = "emit"
  /\ \E n \in task[i].left :
       LET fp == task[i].sensorMap[n]
           rest == task[i].left \ {n}
           after == IF rest = {} THEN DoneTask ELSE [task[i] EXCEPT !.left = rest]
       IN IF NumPoints(fp.sensors) < task[i].rd.minimumPassive
            THEN /\ task' = [task EXCEPT ![i] = after]
                 /\ UNCHANGED <<crashed, ingestVars>>
            ELSE \E addOk \in BOOLEAN :
                 \E gpsOk \in Outcomes(HasGPS(fp)) :
                   LET r == ProcessSensorData(fp, <<>>, addOk, gpsOk)
                   IN /\ sensorsTable' = r.sensors
                      /\ gpsTable' = r.gps
                      /\ pending' = IF r.launch THEN Append(pending, fp) ELSE pending
                      /\ calls' = Append(calls,
                            CallRecord("parse", fp, <<>>, task[i].rd.minimumPassive, r))
                      /\ crashed' = r.panic
                      /\ task' = [task EXCEPT ![i] =
                                    IF r.panic THEN [task[i] EXCEPT !.left = rest]
                                    ELSE after]
  /\ UNCHANGED <<now, useMQTT, keystore, dbClosed, req, sreq, flushCount, delivered>>
  /\ UNCHANGED dbVars

(* ----------------------- handlerReverseSettings ----------------------- *)
Delete(m, k) == [x \in DOMAIN m \ {k} |-> m[x]]

\* lines 506-539: the record after the settings were applied; writing
\* DeviceGPS of a record whose DeviceGPS is nil panics
ApplySettings(rd0, d) ==
  LET rd1 == IF rd0.timeBlock = 0 THEN [rd0 EXCEPT !.timeBlock = DefaultTimeBlock]
             ELSE rd0
      setGPS == d.device # "" /\ d.location # "" /\ d.lat # 0 /\ d.lon # 0
      rd2 == IF d.device = "" THEN rd1
             ELSE IF d.location = ""
               THEN [rd1 EXCEPT !.deviceLocation = Delete(@, d.device)]
             ELSE IF setGPS /\ ~rd1.gpsNil
               THEN [rd1 EXCEPT
                       !.deviceLocation = (d.device :> d.location) @@ @,
                       !.deviceGPS = (d.device :>
                           [lat |-> d.lat, lon |-> d.lon, alt |-> d.alt]) @@ @]
             ELSE [rd1 EXCEPT !.deviceLocation = (d.device :> d.location) @@ @]
      rd3 == IF d.window > 0 THEN [rd2 EXCEPT !.timeBlock = d.window] ELSE rd2
      rd4 == IF d.minimum_passive # 0
             THEN [rd3 EXCEPT !.minimumPassive = d.minimum_passive] ELSE rd3
  IN [panic |-> setGPS /\ rd1.gpsNil, rd |-> rd4]

SettingsAnswer(okv) == [IdleSettings EXCEPT !.pc = "done", !.ok = okv]

\* bind, normalize, read the record, apply the settings
S_Get(k) ==
  /\ ~crashed
  /\ sreq[k].pc = "idle"
  /\ Started < MaxCalls
  /\ k > 1 => sreq[k - 1].pc # "idle"
  /\ \E body \in SettingsBodies, got \in Outcomes(CanGet) :
       LET d == [body EXCEPT !.family = Normalize(@), !.device = Normalize(@),
                             !.location = Normalize(@)]
           rd0 == IF got THEN keystore[1] ELSE DefaultSettingsData(d.family)
           ap == ApplySettings(rd0, d)
       IN sreq' = [sreq EXCEPT ![k] =
                     IF ap.panic THEN SettingsAnswer(FALSE)
                     ELSE [@ EXCEPT !.pc = "got", !.d = d, !.rd = ap.rd]]
  /\ UNCHANGED <<now, useMQTT, keystore, dbClosed, req, task, crashed,
                 flushCount, ingestVars, delivered>>
  /\ UNCHANGED dbVars

\* line 541: write the record back and answer; the body stays in the request
\* as history
S_Set(k) ==
  /\ ~crashed
  /\ sreq[k].pc = "got"
  /\ \E set \in Outcomes(DbUsable) :
       /\ keystore' = IF set THEN <<sreq[k].rd>> ELSE keystore
       /\ sreq' = [sreq EXCEPT ![k] = [SettingsAnswer(set) EXCEPT !.d = sreq[k].d]]
  /\ UNCHANGED <<now, useMQTT, dbClosed, req, task, crashed, flushCount,
                 ingestVars, delivered>>
  /\ UNCHANGED dbVars

(* ------------------------------ delivery ------------------------------ *)
\* what api.AnalyzeSensorData may answer
GuessLists ==
  { <<>>,
    <<[location |-> "kitchen", probability |-> 80]>>,
    <<[location |-> "hall", probability |-> 60],
      [location |-> "kitchen", probability |-> 30]>> }

\* what api.GetGPSData may answer
GPSAnswers ==
  { [err |-> e, data |-> m] :
      e \in BOOLEAN,
      m \in {EmptyMap, "kitchen" :> [lat |-> 7, lon |-> 8, alt |-> 9]} }

ServerFamily == "default"

Publication(sink, family, device, payload) ==
  [sink |-> sink, family |-> family, device |-> device, payload |-> payload]

\* a fan-out that publishes to MQTT whatever the switch says
SendOutDataAlwaysMQTT(p, guesses, ga) ==
  IF Len(guesses) = 0 THEN [err |-> "no guesses", pubs |-> <<>>]
  ELSE LET loc == guesses[1].location
           payload == [sensors |-> p, guesses |-> guesses, location |-> loc,
                       time |-> p.timestamp]
           fam == Normalize(p.family)
       IN [err |-> "",
           pubs |-> << Publication("ws", fam, p.device, payload),
                       Publication("ws", fam, "all", payload),
                       Publication("mqtt", fam, p.device, payload) >>]

\* a fan-out that publishes even when the classifier gave no guess
SendOutDataWithoutGuess(p, guesses, ga) ==
  LET payload == [sensors |-> p, guesses |-> guesses, location |-> "",
                  time |-> p.timestamp]
      fam == Normalize(p.family)
  IN [err |-> IF Len(guesses) = 0 THEN "no guesses" ELSE "",
      pubs |-> << Publication("ws", fam, p.device, payload),
                  Publication("ws", fam, "all", payload) >>]

\* sendOutData(p) given the classifier's guesses and the GPS lookup's answer:
\* the error it returns and the publications it makes, in order
SendOutData(p, guesses, ga) ==
  IF Len(guesses) = 0 THEN [err |-> "no guesses", pubs |-> <<>>]
  ELSE LET loc == guesses[1].location
           p1 == IF ~ga.err /\ loc \in DOMAIN ga.data
                 THEN [p EXCEPT !.gps.lat = ga.data[loc].lat,
                                !.gps.lon = ga.data[loc].lon]
                 ELSE [p EXCEPT !.gps.lat = -1, !.gps.lon = -1]
           payload == [sensors |-> p1, guesses |-> guesses, location |-> loc,
                       time |-> p1.timestamp]
           fam == Normalize(p1.family)
           ws == << Publication("ws", fam, p1.device, payload),
                    Publication("ws", fam, "all", payload) >>
           mq == IF useMQTT
                 THEN << Publication("mqtt", fam, p1.device, payload) >>
                 ELSE <<>>
       IN [err |-> "", pubs |-> ws \o mq]

Delivery(src, p, guesses, ga, r) ==
  [src |-> src, p |-> p, guesses |-> guesses, ga |-> ga, err |-> r.err,
   pubs |-> r.pubs]

RemoveAt(s, k) == [j \in 1..(Len(s) - 1) |-> IF j < k THEN s[j] ELSE s[j + 1]]

\* a detached `go sendOutData(p)` runs
Deliver ==
  /\ ~crashed
  /\ \E k \in 1..Len(pending), guesses \in GuessLists, ga \in GPSAnswers :
       /\ delivered' = Append(delivered,
            Delivery("process", pending[k], guesses, ga,
                     SendOutData(pending[k], guesses, ga)))
       /\ pending' = RemoveAt(pending, k)
  /\ UNCHANGED <<now, useMQTT, passiveVars, crashed, sensorsTable, gpsTable, calls>>
  /\ UNCHANGED dbVars

LocateDevices == {"phone"}

\* Database.GetLatest(device) on the server's store
LatestRows(device) ==
  {r \in sensorsTable :
     /\ r.family = ServerFamily
     /\ r.deviceid = device
     /\ \A q \in sensorsTable :
          (q.family = ServerFamily /\ q.deviceid = device)
            => q.timestamp <= r.timestamp}

RowData(r) ==
  SD(r.family, r.deviceid, r.timestamp, r.locationid, ZeroGPS,
     "bluetooth" :> r.bluetooth)

LocateCalls == Cardinality({k \in 1..Len(delivered) : delivered[k].src = "locate"})

\* what api.AnalyzeSensorData may return
AnalysisOutcomes ==
  {[err |-> TRUE, guesses |-> <<>>]}
    \cup {[err |-> FALSE, guesses |-> g] : g \in GuessLists}

\* what a caller got back: the envelope of a handler, or the values
\* sendOutLocation returned, with what was attempted on the way
Reply(src, err, message, guesses, readFailed, failed, calibrations, calErr) ==
  [src |-> src, status |-> 200, success |-> ~err, message |-> message,
   guesses |-> guesses, readFailed |-> readFailed, failed |-> failed,
   calibrations |-> calibrations, calErr |-> calErr, retries |-> 0]

\* sendOutLocation(family, device): GetLatest, sendOutData on the row, then
\* a second analysis and, when it fails, one Calibrate whose error is returned
SendOutLocation ==
  /\ ~crashed
  /\ LocateCalls < MaxLocate
  /\ Started < MaxCalls
  /\ \E device \in LocateDevices, guesses \in GuessLists, ga \in GPSAnswers :
     \E got \in Outcomes(DbUsable /\ LatestRows(device) # {}) :
       IF ~got
         THEN /\ delivered' = Append(delivered,
                   Delivery("locate", NoData, <<>>, [err |-> TRUE, data |-> EmptyMap],
                            [err |-> "no rows found", pubs |-> <<>>]))
              /\ replies' = Append(replies,
                   Reply("sendOutLocation", TRUE, "no rows found", <<>>, TRUE,
                         FALSE, 0, FALSE))
         ELSE LET s == RowData(CHOOSE r \in LatestRows(device) : TRUE)
                  out == SendOutData(s, guesses, ga)
              IN /\ delivered' = Append(delivered,
                                        Delivery("locate", s, guesses, ga, out))
                 /\ IF out.err # ""
                      THEN replies' = Append(replies,
                             Reply("sendOutLocation", TRUE, out.err, <<>>, FALSE,
                                   FALSE, 0, FALSE))
                      ELSE \E a \in AnalysisOutcomes, calErr \in BOOLEAN :
                             /\ ~a.err => ~calErr
                             /\ replies' = Append(replies,
                                  Reply("sendOutLocation", a.err /\ calErr,
                                        IF a.err /\ calErr THEN "calibrate" ELSE "",
                                        a.guesses, FALSE, a.err,
                                        IF a.err THEN 1 ELSE 0, calErr))
  /\ UNCHANGED <<now, useMQTT, passiveVars, crashed, ingestVars>>
  /\ UNCHANGED <<columns, rows, dict, writer, predictions, predLog, openTx,
                 gpsLog, schemaVars>>

(* ------------------- handlerLocate, handlerEfficacy ------------------- *)
MaxReplies == 2

\* POST /location: bind, analyze, answer the guesses or the error
HandlerLocate ==
  /\ ~crashed
  /\ Len(replies) < MaxReplies
  /\ \E bound \in BOOLEAN, a \in AnalysisOutcomes :
       replies' = Append(replies,
         IF ~bound
           THEN Reply("locate", TRUE, "problem binding data", <<>>, FALSE,
                      FALSE, 0, FALSE)
           ELSE Reply("locate", a.err, IF a.err THEN "analysis" ELSE "",
                      a.guesses, FALSE, a.err, 0, FALSE))
  /\ UNCHANGED serverVars
  /\ UNCHANGED <<columns, rows, dict, writer, predictions, predLog, openTx,
                 gpsLog, schemaVars>>

\* GET /efficacy: the closure's `if err := db.GetMany(...)` declares a new
\* err, so the wrapped error never reaches the named result
HandlerEfficacy ==
  /\ ~crashed
  /\ Len(replies) < MaxReplies
  /\ \E got \in Outcomes(DbUsable) :
       LET err == FALSE
       IN replies' = Append(replies,
            IF err
              THEN Reply("efficacy", TRUE, "could not get efficacy info", <<>>,
                         ~got, FALSE, 0, FALSE)
              ELSE Reply("efficacy", FALSE, "got stats", <<>>, ~got, FALSE, 0,
                         FALSE))
  /\ UNCHANGED serverVars
  /\ UNCHANGED <<columns, rows, dict, writer, predictions, predLog, openTx,
                 gpsLog, schemaVars>>

(* ------------------------------- clock -------------------------------- *)
Tick ==
  /\ ~crashed
  /\ now + TickStep <= MaxTime
  /\ now' = now + TickStep
  /\ UNCHANGED <<useMQTT, passiveVars, crashed, ingestVars, delivered>>
  /\ UNCHANGED dbVars

(* ---------------------------- stringsizer ----------------------------- *)
Range(f) == {f[x] : x \in DOMAIN f}

\* the token of a key: its place in the dictionary's key list
TokenOf(keys, k) == CHOOSE i \in 1..Len(keys) : keys[i] = k

\* the key list after the keys `ord` were looked up in turn: a key not yet
\* listed is appended and gets the next token
RECURSIVE ShrinkKeys(_, _)
ShrinkKeys(keys, ord) ==
  IF ord = <<>> THEN keys
  ELSE ShrinkKeys(IF Head(ord) \in Range(keys) THEN keys ELSE Append(keys, Head(ord)),
                  Tail(ord))

\* ShrinkMapToString(m), the keys of m visited in order `ord`: the extended
\* key list and the encoding, token -> value
ShrinkMapToString(keys, m, ord) ==
  LET ks == ShrinkKeys(keys, ord)
  IN [keys |-> ks,
      str |-> [tok \in {TokenOf(ks, k) : k \in DOMAIN m} |-> m[ks[tok]]]]

\* ExpandMapFromString(str): an error if a token is not in the dictionary
ExpandMapFromString(keys, str) ==
  IF DOMAIN str \subseteq 1..Len(keys)
    THEN [err |-> FALSE,
          m |-> [k \in {keys[tok] : tok \in DOMAIN str} |->
                   str[CHOOSE tok \in DOMAIN str : keys[tok] = k]]]
    ELSE [err |-> TRUE, m |-> EmptyMap]

\* the orders in which `range` may visit the keys of a map
KeyOrders(m) ==
  LET n == Cardinality(DOMAIN m)
  IN {o \in [1..n -> DOMAIN m] : \A i, j \in 1..n : o[i] = o[j] => i = j}

(* ----------------------------- AddSensor ------------------------------ *)
\* fingerprints handed to AddSensor on one family store
StoreBodies ==
  { SD("home", "phone", 5000, "kitchen", ZeroGPS, "bluetooth" :> ("aa:bb" :> -40)),
    SD("home", "phone", 5000, "hall", ZeroGPS,
       "bluetooth" :> ("cc:dd" :> -45) @@ "wifi" :> ("ee:ff" :> -60)),
    SD("home", "tablet", 6000, "", ZeroGPS,
       "bluetooth" :> ("aa:bb" :> -50 @@ "cc:dd" :> -55)) }

WriterDone(err, dup) == [IdleWriter EXCEPT !.pc = "done", !.err = err, !.dup = dup]

\* lines 281-301: read the columns, load the dictionary
AS_Get(i) ==
  /\ writer[i].pc = "idle"
  /\ i > 1 => writer[i - 1].pc # "idle"
  /\ \E s \in StoreBodies, got \in Outcomes(TRUE) :
       writer' = [writer EXCEPT ![i] =
                    IF got
                      THEN [@ EXCEPT !.pc = "read", !.s = s, !.keys = dict,
                                     !.previousCurrent = Len(dict)]
                      ELSE WriterDone("problem getting key", FALSE)]
  /\ UNCHANGED <<serverVars, columns, rows, dict, predictions, predLog, openTx, gpsLog>>
  /\ UNCHANGED <<schemaVars, replies>>

\* lines 303-319: shrink the bluetooth map and insert the row; a plain insert,
\* refused when the timestamp has a row
AS_Insert(i) ==
  /\ writer[i].pc = "read"
  /\ LET s == writer[i].s
         bt == Lookup(s.sensors, "bluetooth", EmptyMap)
         exists == \E r \in rows : r.timestamp = s.timestamp
     IN \E ord \in KeyOrders(bt), ok \in Outcomes("bluetooth" \in columns /\ ~exists) :
          LET sh == ShrinkMapToString(writer[i].keys, bt, ord)
          IN IF ok
               THEN /\ rows' = rows \cup
                         {[timestamp |-> s.timestamp, deviceid |-> s.device,
                           locationid |-> s.location, bluetooth |-> sh.str,
                           ingested |-> s.sensors]}
                    /\ writer' = [writer EXCEPT ![i] =
                         IF Len(sh.keys) # writer[i].previousCurrent
                           THEN [@ EXCEPT !.pc = "inserted", !.keys = sh.keys]
                           ELSE [WriterDone("", FALSE) EXCEPT !.s = s]]
               ELSE /\ rows' = rows
                    /\ writer' = [writer EXCEPT ![i] =
                         [WriterDone("AddSensor, execute", exists) EXCEPT !.s = s]]
  /\ UNCHANGED <<serverVars, columns, dict, predictions, predLog, openTx, gpsLog>>
  /\ UNCHANGED <<schemaVars, replies>>

\* lines 322-326: the dictionary grew, so write it back
AS_Save(i) ==
  /\ writer[i].pc = "inserted"
  /\ \E set \in Outcomes(TRUE) :
       /\ dict' = IF set THEN writer[i].keys ELSE dict
       /\ writer' = [writer EXCEPT ![i] =
            [WriterDone(IF set THEN "" ELSE "Set", FALSE) EXCEPT !.s = writer[i].s]]
  /\ UNCHANGED <<serverVars, columns, rows, predictions, predLog, openTx, gpsLog>>
  /\ UNCHANGED <<schemaVars, replies>>

\* getRows on the rows `rs`: load the dictionary, expand each row's bluetooth
\* column into a SensorData that has this one category
GetRows(rs) ==
  IF \E r \in rs : ExpandMapFromString(dict, r.bluetooth).err
    THEN [err |-> TRUE, data |-> {}]
    ELSE [err |-> FALSE,
          data |-> {SD("home", r.deviceid, r.timestamp, r.locationid, ZeroGPS,
                       "bluetooth" :> ExpandMapFromString(dict, r.bluetooth).m) :
                      r \in rs}]

\* GetSensorFromTime(timestamp)
GetSensorFromTime(ts) == GetRows({r \in rows : r.timestamp = ts})

(* ------------------------------ float64 ------------------------------- *)
\* A float64 is a record [m, s]: m is the significand in binary, most
\* significant bit first and without leading zeros, and the value is
\* m / 2^s.  Natural numbers of any size are such bit sequences, so that a
\* product of a 53-bit significand is computed exactly before it is rounded.
Strip(a) ==
  IF \A j \in 1..Len(a) : a[j] = 0 THEN <<>>
  ELSE LET first == CHOOSE j \in 1..Len(a) : a[j] = 1 /\ \A k \in 1..(j - 1) : a[k] = 0
       IN SubSeq(a, first, Len(a))

\* bit i of a, counted from the least significant one
Bit(a, i) == IF i <= Len(a) THEN a[Len(a) + 1 - i] ELSE 0

ShiftLeft(a, k) == IF a = <<>> THEN a ELSE a \o [j \in 1..k |-> 0]

RECURSIVE BitsToNat(_)
BitsToNat(a) ==
  IF a = <<>> THEN 0 ELSE 2 * BitsToNat(SubSeq(a, 1, Len(a) - 1)) + a[Len(a)]

\* bit t of the number v, counted from 0 at the least significant one
RECURSIVE BitOf(_, _)
BitOf(v, t) == IF t = 0 THEN v % 2 ELSE BitOf(v \div 2, t - 1)

\* a + 1
Increment(a) ==
  IF \A j \in 1..Len(a) : a[j] = 1 THEN <<1>> \o [j \in 1..Len(a) |-> 0]
  ELSE LET z == CHOOSE j \in 1..Len(a) : a[j] = 0 /\ \A k \in (j + 1)..Len(a) : a[k] = 1
       IN [j \in 1..Len(a) |-> IF j < z THEN a[j] ELSE IF j = z THEN 1 ELSE 0]

\* Arithmetic is done on limbs of LimbBits bits, least significant limb first.
LimbBits == 12

Base == 4096       \* 2^LimbBits

Limbs(a) ==
  [r \in 1..((Len(a) + LimbBits - 1) \div LimbBits) |->
     BitsToNat([t \in 1..LimbBits |-> Bit(a, LimbBits * r - t + 1)])]

FromLimbs(l) ==
  Strip([j \in 1..(LimbBits * Len(l)) |->
           LET q == LimbBits * Len(l) - j
           IN BitOf(l[(q \div LimbBits) + 1], q % LimbBits)])

\* the carry into limb r of l * c
RECURSIVE MulCarry(_, _, _)
MulCarry(l, c, r) ==
  IF r = 1 THEN 0 ELSE (l[r - 1] * c + MulCarry(l, c, r - 1)) \div Base

\* a * 100, exactly
Times100(a) ==
  LET l == Limbs(a)
  IN FromLimbs([r \in 1..(Len(l) + 1) |->
                  ((IF r <= Len(l) THEN l[r] * 100 ELSE 0) + MulCarry(l, 100, r)) % Base])

\* long division of l by 100, from the most significant limb down: the
\* remainder carried into limb r
RECURSIVE DivRem(_, _)
DivRem(l, r) ==
  IF r = Len(l) THEN 0 ELSE (DivRem(l, r + 1) * Base + l[r + 1]) % 100

\* the quotient of a by 100, and whether a remainder is left
Quotient100(a) ==
  LET l == Limbs(a)
  IN FromLimbs([r \in 1..Len(l) |-> (DivRem(l, r) * Base + l[r]) \div 100])

Remainder100(a) ==
  LET l == Limbs(a)
  IN IF l = <<>> THEN 0 ELSE (DivRem(l, 1) * Base + l[1]) % 100

BitsLeq(a, b) ==
  \/ Len(a) < Len(b)
  \/ /\ Len(a) = Len(b)
     /\ \/ \A j \in 1..Len(a) : a[j] = b[j]
        \/ \E j \in 1..Len(a) : a[j] < b[j] /\ \A k \in 1..(j - 1) : a[k] = b[k]

\* x <= y, as real numbers
Float64Leq(x, y) == BitsLeq(ShiftLeft(x.m, y.s), ShiftLeft(y.m, x.s))

Precision == 53    \* bits in the significand of a float64

\* the float64 nearest to a / 2^s, ties to the even significand; `sticky`
\* says that a itself is a quotient cut short of a non-zero remainder
RoundToFloat64(a, s, sticky) ==
  IF Len(a) <= Precision THEN [m |-> a, s |-> s]
  ELSE LET drop == Len(a) - Precision
           top == SubSeq(a, 1, Precision)
           half == a[Precision + 1]
           rest == sticky \/ \E j \in (Precision + 2)..Len(a) : a[j] = 1
           up == half = 1 /\ (rest \/ a[Precision] = 1)
       IN [m |-> IF up THEN Increment(top) ELSE top, s |-> s - drop]

\* float64(p) * 100
Float64Times100(p) == RoundToFloat64(Times100(p.m), p.s, FALSE)

\* int64(x) for 0 <= x < 2^31: the integral part
Int64Of(x) ==
  IF Len(x.m) > x.s THEN BitsToNat(SubSeq(x.m, 1, Len(x.m) - x.s)) ELSE 0

\* the integral part of the real number p * 100
Floor100(p) == Int64Of([m |-> Times100(p.m), s |-> p.s])

QuotientBits == 72   \* binary places the quotient is carried to before rounding

\* float64(k) / 100
Float64Over100(k) ==
  LET a == ShiftLeft(Strip([t \in 1..LimbBits |-> BitOf(k, LimbBits - t)]), QuotientBits)
  IN IF k = 0 THEN [m |-> <<>>, s |-> 0]
     ELSE RoundToFloat64(Quotient100(a), QuotientBits, Remainder100(a) # 0)

\* line 235: the hundredths kept, and the probability put back in its place
Hundredths(p) == Int64Of(Float64Times100(p))

Truncate(p) == Float64Over100(Hundredths(p))

\* the float64 values of 0.29, 0.3, 0.57 and 0.999
\* a float64 from the hexadecimal digits of its significand
Float64(hex, s) ==
  [m |-> Strip([j \in 1..(4 * Len(hex)) |->
                  BitOf(hex[((j - 1) \div 4) + 1], 3 - ((j - 1) % 4))]),
   s |-> s]

P029 == Float64(<<1, 2, 8, 15, 5, 12, 2, 8, 15, 5, 12, 2, 8, 15>>, 54)
P03 == Float64(<<1, 3, 3, 3, 3, 3, 3, 3, 3, 3, 3, 3, 3, 3>>, 54)
P057 == Float64(<<1, 2, 3, 13, 7, 0, 10, 3, 13, 7, 0, 10, 3, 13>>, 53)
P0999 == Float64(<<1, 15, 15, 7, 12, 14, 13, 9, 1, 6, 8, 7, 2, 11>>, 53)

(* --------------------------- AddPrediction ---------------------------- *)
LocationPrediction(location, probability) ==
  [location |-> location, probability |-> probability]

\* guess lists handed to AddPrediction
PredictionLists ==
  { <<>>,
    <<LocationPrediction("kitchen", P029)>>,
    <<LocationPrediction("kitchen", P057), LocationPrediction("hall", P03)>>,
    <<LocationPrediction("hall", P0999)>> }

PredictionTimes == {5000, 6000}

\* json.Marshal of a probability: the shortest decimal that reads back as the
\* same float64.  For the float64 nearest to a number of hundredths, which is
\* what line 235 leaves, that decimal is the number of hundredths nearest to
\* it; the text is kept as that number.
MarshalFloat(x) ==
  IF x.m = <<>> THEN 0
  ELSE LET c == Times100(x.m)
       IN Int64Of([m |-> c, s |-> x.s]) + Bit(c, x.s)

Marshal(aidata) ==
  [i \in 1..Len(aidata) |-> <<aidata[i].location, MarshalFloat(aidata[i].probability)>>]

\* json.Unmarshal reads a number as the float64 nearest to the decimal
Unmarshal(b) ==
  [i \in 1..Len(b) |-> LocationPrediction(b[i][1], Float64Over100(b[i][2]))]

\* lines 233-236
TruncateAll(aidata) ==
  [i \in 1..Len(aidata) |->
     LocationPrediction(aidata[i].location, Truncate(aidata[i].probability))]

\* the statement of line 242 without its "on duplicate key update"
UpsertInsertOnly(table, timestamp, b) ==
  IF timestamp \in DOMAIN table
    THEN [err |-> TRUE, table |-> table]
    ELSE [err |-> FALSE, table |-> (timestamp :> b) @@ table]

\* line 242: insert, or replace the prediction of the timestamp
Upsert(table, timestamp, b) ==
  [err |-> FALSE, table |-> (timestamp :> b) @@ table]

AddPrediction ==
  /\ Len(predLog) < MaxPredictions
  /\ \E timestamp \in PredictionTimes, aidata \in PredictionLists :
       \E fault \in (IF aidata = <<>> THEN {"none"} ELSE {"none", "stmt", "exec"}) :
         LET up == Upsert(predictions, timestamp, Marshal(TruncateAll(aidata)))
             err == IF aidata = <<>> THEN "no predictions to add"
                    ELSE IF fault = "stmt" THEN "stmt AddPrediction"
                    ELSE IF fault = "exec" \/ up.err THEN "exec AddPrediction"
                    ELSE ""
         IN /\ predictions' = IF err = "" THEN up.table ELSE predictions
            /\ predLog' = Append(predLog, [timestamp |-> timestamp, aidata |-> aidata,
                                           fault |-> fault, err |-> err])
  /\ UNCHANGED <<serverVars, columns, rows, dict, writer, openTx, gpsLog>>
  /\ UNCHANGED <<schemaVars, replies>>

GetPrediction(timestamp) ==
  IF timestamp \in DOMAIN predictions
    THEN [err |-> FALSE, aidata |-> Unmarshal(predictions[timestamp])]
    ELSE [err |-> TRUE, aidata |-> <<>>]

(* ------------------------------ SetGPS -------------------------------- *)
\* fingerprints with a position, handed to SetGPS on the store of "home"
GPSBodies ==
  { SD("home", "phone", 5000, "kitchen", [lat |-> 1, lon |-> 2, alt |-> 0],
       "bluetooth" :> ("aa:bb" :> -40)),
    SD("home", "phone", 6000, "hall", [lat |-> 3, lon |-> 4, alt |-> 5],
       "bluetooth" :> ("aa:bb" :> -50 @@ "cc:dd" :> -55) @@ "wifi" :> ("ee:ff" :> -60)) }

\* where the backend fails a call, and the rows executed before an Exec fails
GPSFaults(s) ==
  {[at |-> f, executed |-> 0] : f \in {"none", "begin", "prepare", "commit"}}
    \cup {[at |-> "exec", executed |-> k] : k \in 0..(Cardinality(Entries(s)) - 1)}

\* what a failed call does with the transaction it began: lines 918-920 and
\* 926-928 return without a Rollback, which leaves it open
LeavesOpen(fault) == fault.at \in {"prepare", "exec"}

\* lines 913-938, as one call on the store's handle: the rows become visible at
\* Commit; a transaction that was begun and neither committed nor rolled back
\* keeps its connection
SetGPSTx ==
  /\ Len(gpsLog) < MaxGPSCalls
  /\ \E s \in GPSBodies :
       \E fault \in GPSFaults(s) :
         LET r == SetGPS(gpsTable, s.family, s, fault.at = "none")
         IN /\ gpsTable' = r.table
            /\ openTx' = openTx + (IF LeavesOpen(fault) THEN 1 ELSE 0)
            /\ gpsLog' = Append(gpsLog, [s |-> s, fault |-> fault, err |-> r.err])
  /\ UNCHANGED <<now, useMQTT, keystore, dbClosed, req, task, sreq, crashed,
                 sensorsTable, pending, flushCount, calls, delivered>>
  /\ UNCHANGED <<columns, rows, dict, writer, predictions, predLog>>
  /\ UNCHANGED <<schemaVars, replies>>

(* ------------------- Open, MakeTables and the keystore ---------------- *)
MaxOps == 3

KeystoreKeys == {"sensorDataStringSizer", "ReverseRollingData"}

\* json.Marshal of a string value, and json.Unmarshal of what is stored
MarshalString(v) == "\"" \o v \o "\""

UnmarshalString(b) == CHOOSE v \in {"", "a", "b"} : MarshalString(v) = b

\* the tables MakeTables creates, with their columns
MadeTables ==
  [keystore |-> {"key", "value"},
   sensors |-> {"timestamp", "deviceid", "locationid"},
   location_predictions |-> {"timestamp", "prediction"},
   devices |-> {"id", "name"},
   locations |-> {"id", "name"},
   gps |-> {"id", "timestamp", "mac", "loc", "lat", "lon", "alt"}]

\* a statement on `table` that names `cols` runs only on an open handle, when
\* the table exists and has those columns; the backend is taken not to fail
\* otherwise
StatementRuns(table, cols) ==
  /\ opened
  /\ table \in DOMAIN tables
  /\ cols \subseteq tables[table]

\* Open(family): makes the handle; the call of MakeTables is commented out
Open ==
  /\ ~opened
  /\ opened' = TRUE
  /\ UNCHANGED <<tables, kv, oplog>>
  /\ UNCHANGED <<serverVars, columns, rows, dict, writer, predictions, predLog,
                 openTx, gpsLog, replies>>

\* MakeTables: "create table keystore" fails when the table exists, and
\* nothing is made; else the six tables and the indexes are made and the
\* empty dictionary is written with Set, whose error is returned
MakeTables ==
  /\ opened
  /\ Len(oplog) < MaxOps
  /\ IF "keystore" \in DOMAIN tables
       THEN /\ oplog' = Append(oplog, [op |-> "MakeTables", k |-> "", v |-> "",
                                       err |-> TRUE])
            /\ UNCHANGED <<tables, kv>>
       ELSE LET set == {"id", "value"} \subseteq MadeTables["keystore"]
            IN /\ tables' = MadeTables @@ tables
               /\ kv' = IF set
                          THEN Append(kv, [id |-> "sensorDataStringSizer",
                                           value |-> MarshalString("")])
                          ELSE kv
               /\ oplog' = Append(oplog, [op |-> "MakeTables", k |-> "",
                                          v |-> "", err |-> ~set])
  /\ UNCHANGED opened
  /\ UNCHANGED <<serverVars, columns, rows, dict, writer, predictions, predLog,
                 openTx, gpsLog, replies>>

\* Set(key, value): insert into keystore(id,value) ... on duplicate key
\* update value
KS_Set ==
  /\ opened
  /\ Len(oplog) < MaxOps
  /\ \E k \in KeystoreKeys, v \in {"a", "b"} :
       LET set == StatementRuns("keystore", {"id", "value"})
           b == MarshalString(v)
           at == {j \in 1..Len(kv) : kv[j].id = k}
       IN /\ kv' = IF ~set THEN kv
                   ELSE IF at = {} THEN Append(kv, [id |-> k, value |-> b])
                   ELSE [j \in 1..Len(kv) |->
                           IF j \in at THEN [kv[j] EXCEPT !.value = b] ELSE kv[j]]
          /\ oplog' = Append(oplog, [op |-> "Set", k |-> k, v |-> v, err |-> ~set])
  /\ UNCHANGED <<opened, tables>>
  /\ UNCHANGED <<serverVars, columns, rows, dict, writer, predictions, predLog,
                 openTx, gpsLog, replies>>

\* Get(key, &v): select value from keystore where id = ?, first row
KS_Get ==
  /\ opened
  /\ Len(oplog) < MaxOps
  /\ \E k \in KeystoreKeys :
       LET at == {j \in 1..Len(kv) : kv[j].id = k}
           got == StatementRuns("keystore", {"id", "value"}) /\ at # {}
       IN oplog' = Append(oplog,
            [op |-> "Get", k |-> k,
             v |-> IF got THEN UnmarshalString(kv[CHOOSE j \in at : \A x \in at : j <= x].value)
                   ELSE "",
             err |-> ~got])
  /\ UNCHANGED <<opened, tables, kv>>
  /\ UNCHANGED <<serverVars, columns, rows, dict, writer, predictions, predLog,
                 openTx, gpsLog, replies>>

(* --------------------------- specifications --------------------------- *)
\* the handlers and goroutines of the server package, each calling the
\* others as the source does
Next ==
  \/ \E i \in 1..MaxReq : HR_Get(i)
  \/ \E i \in 1..MaxReq : HR_Set(i)
  \/ \E i \in 1..MaxReq : P_Get(i)
  \/ \E i \in 1..MaxReq : P_Set(i)
  \/ \E i \in 1..MaxReq : P_Close(i)
  \/ \E i \in 1..MaxReq : P_Emit(i)
  \/ \E k \in 1..MaxSettings : S_Get(k)
  \/ \E k \in 1..MaxSettings : S_Set(k)
  \/ HandlerLearn
  \/ SendOutLocation
  \/ Tick

Spec == Init /\ [][Next]_vars

\* the ingest pipeline and the delivery, under each calling form of
\* processSensorData
NextIngest ==
  \/ HandlerLearn
  \/ IngestAndDeliver
  \/ Deliver
  \/ SendOutLocation

SpecIngest == Init /\ [][NextIngest]_vars

\* the samples handlerReverse appends: valid bodies, family normalized
StoredSamples ==
  {[b EXCEPT !.family = Normalize(@)] :
     b \in {x \in PassiveBodies : Validate(x) /\ DOMAIN x.sensors # {}}}

Windows == UNION {[1..n -> StoredSamples] : n \in 1..MaxDatas}

\* what the settings handler may have left in the record: nothing (the record
\* was made by handlerReverse), a location, a location and a position
Learned ==
  { [loc |-> EmptyMap, gps |-> EmptyMap, gpsNil |-> TRUE],
    [loc |-> "bluetooth-aa:bb" :> "kitchen", gps |-> EmptyMap, gpsNil |-> FALSE],
    [loc |-> "bluetooth-aa:bb" :> "kitchen",
     gps |-> "bluetooth-aa:bb" :> [lat |-> 1, lon |-> 2, alt |-> 0],
     gpsNil |-> FALSE] }

\* open windows as handlerReverse and handlerReverseSettings leave them in the
\* keystore, opened at second 0
StoredRecords ==
  { [family |-> IF l.gpsNil THEN w[1].family ELSE "home",
     hasData |-> TRUE, timestamp |-> 0, timeBlock |-> tb, datas |-> w,
     deviceLocation |-> l.loc, deviceGPS |-> l.gps, gpsNil |-> l.gpsNil,
     minimumPassive |-> mp] :
       w \in Windows, tb \in {DefaultTimeBlock, TickStep}, l \in Learned,
       mp \in {0, 2} }

\* the request that appended the last sample has answered; its parse is about
\* to run
InitTranspose ==
  /\ InitDb
  /\ now = 0
  /\ useMQTT = FALSE
  /\ \E rd \in StoredRecords :
       /\ keystore = <<rd>>
       /\ task = [i \in 1..MaxReq |->
                    IF i = 1
                      THEN [IdleTask EXCEPT !.pc = "start",
                                            !.family = rd.datas[Len(rd.datas)].family]
                      ELSE IdleTask]
  /\ dbClosed = FALSE
  /\ req = [i \in 1..MaxReq |-> IF i = 1 THEN Answer(TRUE) ELSE IdleReq]
  /\ sreq = [i \in 1..MaxSettings |-> IdleSettings]
  /\ crashed = FALSE
  /\ sensorsTable = {}
  /\ gpsTable = {}
  /\ pending = <<>>
  /\ flushCount = [i \in 1..MaxReq |-> 0]
  /\ calls = <<>>
  /\ delivered = <<>>

NextTranspose ==
  \/ \E i \in 1..MaxReq : P_Get(i)
  \/ \E i \in 1..MaxReq : P_Set(i)
  \/ \E i \in 1..MaxReq : P_Close(i)
  \/ \E i \in 1..MaxReq : P_Emit(i)
  \/ Tick

\* parseRollingData run on every stored window
SpecTranspose == InitTranspose /\ [][NextTranspose]_vars

\* the record a settings request with a location and a position leaves on a
\* store that had none: learning is on for bluetooth-aa:bb and no window is open
LearningRecord ==
  [DefaultSettingsData("home") EXCEPT
     !.deviceLocation = "bluetooth-aa:bb" :> "kitchen",
     !.deviceGPS = "bluetooth-aa:bb" :> [lat |-> 1, lon |-> 2, alt |-> 0]]

\* the server starts on a store that holds that record
InitLearning ==
  /\ InitDb
  /\ now = 0
  /\ useMQTT = FALSE
  /\ keystore = <<LearningRecord>>
  /\ dbClosed = FALSE
  /\ req = [i \in 1..MaxReq |-> IdleReq]
  /\ task = [i \in 1..MaxReq |-> IdleTask]
  /\ sreq = [i \in 1..MaxSettings |-> IdleSettings]
  /\ crashed = FALSE
  /\ sensorsTable = {}
  /\ gpsTable = {}
  /\ pending = <<>>
  /\ flushCount = [i \in 1..MaxReq |-> 0]
  /\ calls = <<>>
  /\ delivered = <<>>

NextLearning ==
  \/ \E i \in 1..MaxReq : HR_Get(i)
  \/ \E i \in 1..MaxReq : HR_Set(i)
  \/ \E i \in 1..MaxReq : P_Get(i)
  \/ \E i \in 1..MaxReq : P_Set(i)
  \/ \E i \in 1..MaxReq : P_Close(i)
  \/ \E i \in 1..MaxReq : P_Emit(i)
  \/ \E k \in 1..MaxSettings : S_Get(k)
  \/ \E k \in 1..MaxSettings : S_Set(k)
  \/ Tick

\* passive samples and settings requests on a store where learning is on
SpecLearning == InitLearning /\ [][NextLearning]_vars

\* a family store before its first Open: no store at all, or one whose tables
\* were made outside the program with the columns its statements name
InitSchema ==
  /\ Init
  /\ tables \in {EmptyMap, [MadeTables EXCEPT !["keystore"] = {"id", "value"}]}

NextSchema ==
  \/ Open
  \/ MakeTables
  \/ KS_Set
  \/ KS_Get

\* the life of one family store: Open, MakeTables, Set and Get
SpecSchema == InitSchema /\ [][NextSchema]_vars

NextReplies ==
  \/ HandlerLearn
  \/ SendOutLocation
  \/ HandlerLocate
  \/ HandlerEfficacy

\* the endpoints that answer from the store or from the classifier
SpecReplies == Init /\ [][NextReplies]_vars

NextLive ==
  \/ \E i \in 1..MaxReq : HR_Get(i)
  \/ \E i \in 1..MaxReq : HR_Set(i)
  \/ \E i \in 1..MaxReq : P_Get(i)
  \/ \E i \in 1..MaxReq : P_Set(i)
  \/ \E i \in 1..MaxReq : P_Close(i)
  \/ \E i \in 1..MaxReq : P_Emit(i)
  \/ Tick

\* the passive requests and their parse goroutines under fair scheduling: a
\* handler that read the record goes on to its write, and a goroutine that
\* can take its next step takes it
SpecLive ==
  /\ Init
  /\ [][NextLive]_vars
  /\ \A i \in 1..MaxReq :
       /\ WF_vars(HR_Set(i))
       /\ WF_vars(P_Get(i))
       /\ WF_vars(P_Set(i))
       /\ WF_vars(P_Close(i))
       /\ WF_vars(P_Emit(i))

NextStore ==
  \/ \E i \in 1..MaxWriters : AS_Get(i)
  \/ \E i \in 1..MaxWriters : AS_Insert(i)
  \/ \E i \in 1..MaxWriters : AS_Save(i)

\* AddSensor calls on one family store, one after another or interleaved
SpecStore == Init /\ [][NextStore]_vars

NextPredictions == AddPrediction

SpecPredictions == Init /\ [][NextPredictions]_vars

NextGPS == SetGPSTx

SpecGPS == Init /\ [][NextGPS]_vars

(* ------------------------------ properties ---------------------------- *)
\* the tasks that hold a transposition that ran to its end
Transposed ==
  {i \in 1..MaxReq : task[i].flushed /\ task[i].pc \in {"merged", "written", "emit"}}

\* the places of the window where scanner `dev` saw `mac` under category `c`
Sightings(datas, dev, c, mac) ==
  {k \in 1..Len(datas) : /\ datas[k].device = dev
                         /\ c \in DOMAIN datas[k].sensors
                         /\ mac \in DOMAIN datas[k].sensors[c]}

Last(S) == CHOOSE x \in S : \A y \in S : y <= x

\* C1: when parseRollingData has transposed a window, the keys of sensorMap
\* are exactly the names c + "-" + mac of the (category, mac) pairs observed
\* in the window's samples: none is missing, none is added.
C1_WindowTransposition ==
  \A i \in Transposed :
    DOMAIN task[i].sensorMap =
      UNION {{e[1] \o "-" \o e[2] : e \in Entries(task[i].rd.datas[k])} :
               k \in 1..Len(task[i].rd.datas)}

\* a window of several samples was transposed into several devices
C1_Witness ==
  \E i \in Transposed :
    /\ Len(task[i].rd.datas) >= 2
    /\ Cardinality(DOMAIN task[i].sensorMap) >= 2
    /\ \E j, k \in 1..Len(task[i].rd.datas) :
         Entries(task[i].rd.datas[j]) # Entries(task[i].rd.datas[k])

\* C2: for every device c-mac synthesized from a transposed window, the inner
\* map under category c has exactly the keys device + "-" + c of the scanners
\* that saw mac under c, and each holds the rssi of the last sample, by place
\* in datas, of that scanner with that mac.
C2_ScannerKeysLastWins ==
  \A i \in Transposed :
    LET datas == task[i].rd.datas
    IN \A k \in 1..Len(datas) : \A e \in Entries(datas[k]) :
         LET c == e[1]
             mac == e[2]
             fp == task[i].sensorMap[c \o "-" \o mac]
             scanners == {datas[j].device :
                            j \in {j \in 1..Len(datas) :
                                     /\ c \in DOMAIN datas[j].sensors
                                     /\ mac \in DOMAIN datas[j].sensors[c]}}
         IN /\ DOMAIN fp.sensors = {c}
            /\ DOMAIN fp.sensors[c] = {dev \o "-" \o c : dev \in scanners}
            /\ \A dev \in scanners :
                 fp.sensors[c][dev \o "-" \o c] =
                   datas[Last(Sightings(datas, dev, c, mac))].sensors[c][mac]

\* one scanner reported the same mac twice with different rssi, and the
\* transposition holds the later one
C2_Witness ==
  \E i \in Transposed :
    LET datas == task[i].rd.datas
    IN \E j, k \in 1..Len(datas) :
         /\ j < k
         /\ datas[j].device = datas[k].device
         /\ "bluetooth" \in DOMAIN datas[j].sensors
         /\ "bluetooth" \in DOMAIN datas[k].sensors
         /\ "aa:bb" \in DOMAIN datas[j].sensors["bluetooth"]
         /\ "aa:bb" \in DOMAIN datas[k].sensors["bluetooth"]
         /\ datas[j].sensors["bluetooth"]["aa:bb"] # datas[k].sensors["bluetooth"]["aa:bb"]
         /\ k = Last(Sightings(datas, datas[k].device, "bluetooth", "aa:bb"))
         /\ task[i].sensorMap["bluetooth-aa:bb"].sensors["bluetooth"]
              [datas[k].device \o "-bluetooth"] = datas[k].sensors["bluetooth"]["aa:bb"]

\* C3: a synthesized fingerprint with fewer observations than minimumPassive
\* is never passed to processSensorData, and every synthesized fingerprint
\* with at least minimumPassive observations is passed: none is left unpassed
\* when the emission ends.
C3_MinimumPassiveFilter ==
  /\ \A k \in 1..Len(calls) :
       calls[k].src = "parse"
         => NumPoints(calls[k].p.sensors) >= calls[k].minimumPassive
  /\ crashed =>
       \A i \in 1..MaxReq :
         task[i].pc = "emit" =>
           \A n \in task[i].left :
             NumPoints(task[i].sensorMap[n].sensors) < task[i].rd.minimumPassive

\* C4: every sample whose request answered success is in datas of the stored
\* record from then until a transposition takes it.
C4_NoLostUpdate ==
  \A i \in 1..MaxReq :
    (req[i].pc = "done" /\ req[i].ok /\ flushCount[i] = 0)
      => /\ keystore # <<>>
         /\ \E k \in 1..Len(keystore[1].datas) : keystore[1].datas[k].rid = i

\* C5: no accepted sample is part of more than one transposition.
C5_AtMostOnceFlush == \A i \in 1..MaxReq : flushCount[i] <= 1

\* C6: all samples in datas of the stored record have one family, and each
\* fingerprint synthesized from a window has the family of the samples it was
\* built from.
C6_WindowOneFamily ==
  /\ keystore # <<>> =>
       \A j, k \in 1..Len(keystore[1].datas) :
         keystore[1].datas[j].family = keystore[1].datas[k].family
  /\ \A i \in Transposed :
       \A k \in 1..Len(task[i].rd.datas) : \A e \in Entries(task[i].rd.datas[k]) :
         task[i].sensorMap[TrackedName(e[1], e[2])].family = task[i].rd.datas[k].family

\* C7: no processSensorData call crashes; a call with justSave true launches
\* no delivery; a call with justSave false or omitted launches one delivery
\* after a successful save.
C7_JustSaveSemantics ==
  \A k \in 1..Len(calls) :
    /\ ~calls[k].panic
    /\ calls[k].justSave = <<TRUE>> => ~calls[k].launch
    /\ (calls[k].justSave # <<TRUE>> /\ calls[k].err = "") => calls[k].launch

\* C8: a processSensorData call on a fingerprint that fails Validate returns
\* an error, leaves the sensors and gps tables as they were (neither AddSensor
\* nor SetGPS ran) and launches no delivery.
C8_InvalidFingerprintRejected ==
  [][(Len(calls') = Len(calls) + 1 /\ ~Validate(calls'[Len(calls')].p))
       => /\ calls'[Len(calls')].err # ""
          /\ ~calls'[Len(calls')].addTried
          /\ ~calls'[Len(calls')].gpsTried
          /\ sensorsTable' = sensorsTable
          /\ gpsTable' = gpsTable
          /\ pending' = pending]_vars

\* an invalid fingerprint that carries a position, which a save would have
\* written, went through the pipeline in its delivering form
C8_Witness ==
  \E k \in 1..Len(calls) :
    /\ ~Validate(calls[k].p)
    /\ HasGPS(calls[k].p)
    /\ calls[k].justSave = <<FALSE>>
    /\ calls[k].err # ""

\* C9: a processSensorData call returns success only if every persistence
\* step it attempted succeeded: AddSensor, and SetGPS when it was attempted.
C9_PersistenceErrorsReported ==
  \A k \in 1..Len(calls) :
    calls[k].err = "" => (calls[k].addErr = "" /\ calls[k].gpsErr = "")

\* C10: a delivery with guesses publishes one payload to the WebSocket sink
\* for (family, device), then for (family, "all"), and to the MQTT sink for
\* (family, device) exactly when MQTT is enabled; the payload's location is
\* the first guess's and its time the fingerprint's timestamp.
C10_DeliveryFanOut ==
  \A k \in 1..Len(delivered) :
    LET dl == delivered[k]
        fam == Normalize(dl.p.family)
    IN Len(dl.guesses) > 0 =>
         /\ Len(dl.pubs) = IF useMQTT THEN 3 ELSE 2
         /\ [j \in 1..Len(dl.pubs) |-> <<dl.pubs[j].sink, dl.pubs[j].family,
                                         dl.pubs[j].device>>]
              = << <<"ws", fam, dl.p.device>>, <<"ws", fam, "all">> >>
                \o (IF useMQTT THEN << <<"mqtt", fam, dl.p.device>> >> ELSE <<>>)
         /\ \A j \in 1..Len(dl.pubs) :
              /\ dl.pubs[j].payload = dl.pubs[1].payload
              /\ dl.pubs[j].payload.location = dl.guesses[1].location
              /\ dl.pubs[j].payload.time = dl.p.timestamp
              /\ dl.pubs[j].payload.guesses = dl.guesses

\* with MQTT enabled, the latest stored row of a device was delivered with
\* several guesses
C10_Witness ==
  \E k \in 1..Len(delivered) :
    /\ useMQTT
    /\ delivered[k].src = "locate"
    /\ Len(delivered[k].guesses) = 2
    /\ Len(delivered[k].pubs) = 3

\* C11: an AddSensor call whose timestamp already has a row is not refused,
\* and the sensors table has one row per timestamp.
C11_SensorsUpsert ==
  /\ \A i \in 1..MaxWriters : writer[i].pc = "done" => ~writer[i].dup
  /\ \A r1, r2 \in rows : r1.timestamp = r2.timestamp => r1 = r2

\* C13: the sensors table has the columns timestamp, deviceid and locationid
\* and one column for every category of every fingerprint it took in.
C13_ColumnInvariant ==
  /\ {"timestamp", "deviceid", "locationid"} \subseteq columns
  /\ \A r \in rows : DOMAIN r.ingested \subseteq columns

\* C14: once AddSensor has accepted a fingerprint s, GetSensorFromTime of its
\* timestamp returns a SensorData whose sensors equal s.sensors in every
\* category of s.
C14_StoreReadBack ==
  \A i \in 1..MaxWriters :
    (writer[i].pc = "done" /\ writer[i].err = "") =>
      LET s == writer[i].s
          g == GetSensorFromTime(s.timestamp)
      IN /\ ~g.err
         /\ \A x \in g.data : \A c \in DOMAIN s.sensors :
              c \in DOMAIN x.sensors /\ x.sensors[c] = s.sensors[c]

\* C15: every token of every stored sensors row is in the persisted
\* dictionary.
C15_DictionaryBeforeRow ==
  \A r \in rows : DOMAIN r.bluetooth \subseteq 1..Len(dict)

\* C16: the key list of the persisted dictionary only grows at its end: each
\* step leaves the earlier list as a prefix of the later one.
C16_DictionaryPrefixExtension ==
  [][/\ Len(dict) <= Len(dict')
     /\ \A k \in 1..Len(dict) : dict'[k] = dict[k]]_vars

\* C17: when no AddSensor call is under way and all calls so far succeeded,
\* every stored row decodes with the persisted dictionary to the bluetooth map
\* that was ingested for it.
C17_PersistentRoundTrip ==
  (\A i \in 1..MaxWriters : writer[i].pc \in {"idle", "done"} /\ writer[i].err = "")
    => \A r \in rows :
         LET e == ExpandMapFromString(dict, r.bluetooth)
         IN ~e.err /\ e.m = Lookup(r.ingested, "bluetooth", EmptyMap)

\* the calls that had guesses to store and met no fault of the backend
Effective(timestamp) ==
  {n \in 1..Len(predLog) : /\ predLog[n].timestamp = timestamp
                           /\ predLog[n].aidata # <<>>
                           /\ predLog[n].fault = "none"}

LastEffective(timestamp) ==
  CHOOSE n \in Effective(timestamp) : \A k \in Effective(timestamp) : k <= n

\* C12: AddPrediction with guesses succeeds whether or not the timestamp has a
\* prediction, and replaces it; GetPrediction(ts) returns the truncated guesses
\* of the last such call for ts; a call with no guesses returns an error and
\* leaves the stored prediction as it was.
C12_PredictionsUpsert ==
  /\ \A n \in 1..Len(predLog) :
       /\ predLog[n].aidata = <<>> => predLog[n].err = "no predictions to add"
       /\ (predLog[n].aidata # <<>> /\ predLog[n].fault = "none") => predLog[n].err = ""
  /\ \A timestamp \in PredictionTimes :
       LET got == GetPrediction(timestamp)
       IN IF Effective(timestamp) = {}
            THEN got.err
            ELSE /\ ~got.err
                 /\ got.aidata = TruncateAll(predLog[LastEffective(timestamp)].aidata)

\* a prediction was replaced by a later call with other guesses
C12_Witness ==
  \E timestamp \in PredictionTimes :
    \E n1, n2 \in Effective(timestamp) :
      /\ n1 < n2
      /\ n2 = LastEffective(timestamp)
      /\ predLog[n1].aidata # predLog[n2].aidata
      /\ predLog[n2].err = ""
      /\ GetPrediction(timestamp).aidata = TruncateAll(predLog[n2].aidata)
      /\ GetPrediction(timestamp).aidata # TruncateAll(predLog[n1].aidata)

\* C18: every stored probability is the float64 of floor(p * 100) / 100 for the
\* probability p that was handed in, and does not exceed p.
C18_ProbabilityQuantization ==
  \A timestamp \in PredictionTimes :
    Effective(timestamp) # {} =>
      LET aidata == predLog[LastEffective(timestamp)].aidata
          stored == GetPrediction(timestamp).aidata
      IN /\ Len(stored) = Len(aidata)
         /\ \A i \in 1..Len(aidata) :
              /\ stored[i].probability = Float64Over100(Floor100(aidata[i].probability))
              /\ Float64Leq(stored[i].probability, aidata[i].probability)

\* the gps rows of the calls that returned nil
CommittedGPS ==
  UNION {{[family |-> gpsLog[n].s.family, timestamp |-> gpsLog[n].s.timestamp,
           mac |-> TrackedName(e[1], e[2]), loc |-> gpsLog[n].s.location,
           lat |-> gpsLog[n].s.gps.lat, lon |-> gpsLog[n].s.gps.lon,
           alt |-> gpsLog[n].s.gps.alt] : e \in Entries(gpsLog[n].s)} :
         n \in {k \in 1..Len(gpsLog) : gpsLog[k].err = ""}}

\* C19: SetGPS writes one gps row per (category, mac) in one transaction; a call
\* that fails at Prepare, at a row or at Commit is rolled back: its rows are not
\* visible and no transaction is left open.
C19_SetGPSAtomic ==
  /\ \A n \in 1..Len(gpsLog) : gpsLog[n].err = "" <=> gpsLog[n].fault.at = "none"
  /\ gpsTable = CommittedGPS
  /\ openTx = 0

\* C20: a settings request with a device and a location, served on whatever
\* record is stored, does not fail while applying them; the record it goes on to
\* write has deviceLocation[device] = location and, when lat and lon are not
\* zero, deviceGPS[device] = {lat, lon, alt}; and the write stores that record.
C20_SettingsLearningOn ==
  [][\A k \in 1..MaxSettings :
       /\ (sreq[k].pc = "idle" /\ sreq'[k].pc # "idle") =>
            /\ sreq'[k].pc = "got"
            /\ LET d == sreq'[k].d
                   rd == sreq'[k].rd
               IN (d.device # "" /\ d.location # "") =>
                    /\ Lookup(rd.deviceLocation, d.device, "") = d.location
                    /\ (d.lat # 0 /\ d.lon # 0) =>
                         /\ d.device \in DOMAIN rd.deviceGPS
                         /\ rd.deviceGPS[d.device] =
                              [lat |-> d.lat, lon |-> d.lon, alt |-> d.alt]
       /\ (sreq[k].pc = "got" /\ sreq'[k].pc = "done" /\ sreq'[k].ok) =>
            keystore' = <<sreq[k].rd>>]_vars

\* C21: once a settings request with a device and no location has answered
\* success, a window transposed afterwards gives the fingerprint of that
\* device an empty location.
C21_LearningOff ==
  [][\A k \in 1..MaxSettings : \A i \in 1..MaxReq :
       ( /\ sreq[k].pc = "done" /\ sreq[k].ok
         /\ sreq[k].d.device # "" /\ sreq[k].d.location = ""
         /\ task[i].pc = "start" /\ task'[i].flushed
         /\ sreq[k].d.device \in DOMAIN task'[i].sensorMap )
       => task'[i].sensorMap[sreq[k].d.device].location = ""]_vars

\* C22: when a window is transposed, every synthesized fingerprint n carries
\* the location the stored record holds for n at that moment, or none, and the
\* position it holds for n, or the zero position; a stored position
\* {1, 2} gives the fingerprint the position {1, 2, 0}.
C22_LabelAndPositionAtFlush ==
  [][\A i \in 1..MaxReq :
       (task[i].pc = "start" /\ task'[i].flushed /\ task'[i].pc = "merged")
       => LET rd == keystore[1]
          IN \A n \in DOMAIN task'[i].sensorMap :
               LET fp == task'[i].sensorMap[n]
               IN /\ fp.location = IF n \in DOMAIN rd.deviceLocation
                                     THEN rd.deviceLocation[n] ELSE ""
                  /\ fp.gps = IF n \in DOMAIN rd.deviceGPS
                                THEN rd.deviceGPS[n] ELSE ZeroGPS
                  /\ (/\ n \in DOMAIN rd.deviceGPS
                      /\ rd.deviceGPS[n].lat = 1 /\ rd.deviceGPS[n].lon = 2)
                     => fp.gps = [lat |-> 1, lon |-> 2, alt |-> 0]]_vars

\* a transposition gave bluetooth-aa:bb the registered label and position and
\* left another device of the same window without either
C22_Witness ==
  \E i \in Transposed :
    /\ "bluetooth-aa:bb" \in DOMAIN task[i].sensorMap
    /\ task[i].rd.deviceGPS = "bluetooth-aa:bb" :> [lat |-> 1, lon |-> 2, alt |-> 0]
    /\ task[i].sensorMap["bluetooth-aa:bb"].gps = [lat |-> 1, lon |-> 2, alt |-> 0]
    /\ task[i].sensorMap["bluetooth-aa:bb"].location = "kitchen"
    /\ \E n \in DOMAIN task[i].sensorMap :
         /\ n # "bluetooth-aa:bb"
         /\ task[i].sensorMap[n].gps = ZeroGPS
         /\ task[i].sensorMap[n].location = ""

\* C23: no store operation is invoked on the server's handle after Close was
\* called on it: the reads and writes of the passive handler, of the settings
\* handler and of parseRollingData, and the lookup of a locate delivery, all
\* happen while the handle is open.
C23_HandleOpenWhenUsed ==
  [][( \/ \E i \in 1..MaxReq : req[i].pc = "idle" /\ req'[i].pc = "got"
       \/ \E i \in 1..MaxReq : req[i].pc = "got" /\ req'[i].pc = "done"
       \/ \E i \in 1..MaxReq : /\ task[i].pc \in {"start", "merged"}
                               /\ task'[i].pc # task[i].pc
       \/ \E k \in 1..MaxSettings : sreq[k].pc = "idle" /\ sreq'[k].pc # "idle"
       \/ \E k \in 1..MaxSettings : sreq[k].pc = "got" /\ sreq'[k].pc = "done"
       \/ /\ Len(delivered') > Len(delivered)
          /\ delivered'[Len(delivered')].src = "locate" )
     => ~dbClosed]_vars

\* C24: Open of a family that has no store leaves the store with the keystore,
\* sensors, location_predictions, devices, locations and gps tables and with
\* a dictionary row under "sensorDataStringSizer".
C24_SchemaOnFirstOpen ==
  [][(~opened /\ opened' /\ tables = EmptyMap)
     => /\ {"keystore", "sensors", "location_predictions", "devices",
            "locations", "gps"} \subseteq DOMAIN tables'
        /\ \E j \in 1..Len(kv') : kv'[j].id = "sensorDataStringSizer"]_vars

\* C25: on a store whose keystore table MakeTables created, every Set
\* succeeds, the keystore holds at most one row per key, a Get of a key that
\* was set returns the value of the last Set of that key, and a Get of a key
\* never set returns an error.
C25_KeystoreUpsert ==
  [][( /\ "keystore" \in DOMAIN tables
       /\ tables["keystore"] = MadeTables["keystore"]
       /\ Len(oplog') = Len(oplog) + 1 )
     => LET e == oplog'[Len(oplog')]
            sets == {j \in 1..Len(oplog) : /\ oplog[j].op = "Set"
                                          /\ oplog[j].k = e.k}
        IN /\ e.op = "Set" => ~e.err
           /\ \A i, j \in 1..Len(kv') : kv'[i].id = kv'[j].id => i = j
           /\ (e.op = "Get" /\ sets # {})
              => /\ ~e.err
                 /\ e.v = oplog[CHOOSE j \in sets : \A x \in sets : x <= j].v
           /\ (e.op = "Get" /\ sets = {}) => e.err]_vars

\* C26: when the store read behind GET /efficacy fails, the answer is HTTP 200
\* with success false and the error message, and success is true only when
\* the read succeeded.
C26_StorageErrorsSurface ==
  \A j \in 1..Len(replies) :
    replies[j].src = "efficacy"
    => /\ replies[j].status = 200
       /\ replies[j].readFailed
          => ~replies[j].success /\ replies[j].message # "got stats"
       /\ replies[j].success => ~replies[j].readFailed

\* C27: when the analysis of a fingerprint fails, one Calibrate is attempted
\* and the analysis is retried once; the caller gets an error exactly when
\* the calibration or the retried analysis fails.
C27_ModelMissingRecovery ==
  \A j \in 1..Len(replies) :
    replies[j].failed
    => /\ replies[j].calibrations = 1
       /\ replies[j].retries = 1
       /\ replies[j].calErr => ~replies[j].success

\* C28: a window opened at t0 is transposed only by the parse of a received
\* passive sample, when the stored record has hasData and now - t0 exceeds
\* its timeBlock (90 s for a stored zero); and once the transposing parse has
\* done its write-back the stored record has hasData = false.
C28_FlushOnlyOnExpiry ==
  [][\A i \in 1..MaxReq :
       /\ (task[i].pc = "start" /\ task'[i].flushed)
          => /\ req[i].pc = "done" /\ req[i].ok
             /\ keystore # <<>>
             /\ keystore[1].hasData
             /\ now - keystore[1].timestamp >
                  (IF keystore[1].timeBlock = 0 THEN DefaultTimeBlock
                   ELSE keystore[1].timeBlock)
       /\ (task[i].flushed /\ task[i].pc = "merged" /\ task'[i].pc = "written")
          => /\ keystore' # <<>>
             /\ ~keystore'[1].hasData]_vars

C30_OpenOrAppend ==
  [][\A i \in 1..MaxReq :
       ( /\ req[i].pc = "got" /\ req'[i].pc = "done" /\ req'[i].ok )
       => LET sample == req[i].d
              after == keystore'[1]
          IN /\ keystore' # <<>>
             /\ after.hasData
             /\ IF keystore = <<>> \/ ~keystore[1].hasData
                  THEN /\ after.datas = <<sample>>
                       /\ after.timestamp <= now
                  ELSE /\ after.datas = Append(keystore[1].datas, sample)
                       /\ after.timestamp = keystore[1].timestamp]_vars

\* C31: when the analysis of a fingerprint has no guess, sendOutData returns
\* the error "no guesses" and publishes nothing, on the WebSocket topics or on
\* MQTT.
C31_NoGuessesNoPublication ==
  \A k \in 1..Len(delivered) :
    (delivered[k].p # NoData /\ Len(delivered[k].guesses) = 0)
    => /\ delivered[k].err = "no guesses"
       /\ delivered[k].pubs = <<>>

\* with MQTT enabled, a saved fingerprint was analysed to no guess and its
\* delivery ended with the error and no publication, while another delivery
\* did publish
C31_Witness ==
  /\ useMQTT
  /\ \E k \in 1..Len(delivered) :
       /\ delivered[k].src = "process"
       /\ delivered[k].p # NoData
       /\ delivered[k].guesses = <<>>
       /\ delivered[k].err = "no guesses"
       /\ delivered[k].pubs = <<>>
  /\ \E k \in 1..Len(delivered) : Len(delivered[k].pubs) = 3

\* C32: in a delivered payload the fingerprint's latitude and longitude are
\* those GetGPSData holds for the first guess's location when it has that
\* entry; when it has not, or the lookup failed, the gps is exactly
\* {lat -1, lon -1, alt 0}, whatever the fingerprint carried.
C32_DeliveryGPS ==
  \A k \in 1..Len(delivered) : \A j \in 1..Len(delivered[k].pubs) :
    LET dl == delivered[k]
        g == dl.pubs[j].payload.sensors.gps
        loc == dl.guesses[1].location
    IN IF ~dl.ga.err /\ loc \in DOMAIN dl.ga.data
         THEN g.lat = dl.ga.data[loc].lat /\ g.lon = dl.ga.data[loc].lon
         ELSE g = [lat |-> -1, lon |-> -1, alt |-> 0]

\* C33: under fair scheduling, an accepted sample i whose stored window has
\* expired when a later request j is between its read and its write is
\* eventually transposed, unless request j is refused.
C33_EventuallyTransposed ==
  \A i, j \in 1..MaxReq :
    ( /\ i # j
      /\ req[i].pc = "done" /\ req[i].ok
      /\ keystore # <<>>
      /\ \E k \in 1..Len(keystore[1].datas) : keystore[1].datas[k].rid = i
      /\ Expired(keystore[1], now)
      /\ req[j].pc = "got" )
    ~> ( \/ flushCount[i] > 0
         \/ req[j].pc = "done" /\ ~req[j].ok )

\* C34: the sample whose arrival triggers a flush is part of the window that
\* flush transposes: it is in the datas the parse of that sample reads, and
\* each of its observations is in the synthesized fingerprints.
C34_TriggerSampleInFlush ==
  [][\A i \in 1..MaxReq :
       (task[i].pc = "start" /\ task'[i].flushed /\ task'[i].pc = "merged")
       => \E k \in 1..Len(keystore[1].datas) :
            /\ keystore[1].datas[k].rid = i
            /\ \A e \in Entries(keystore[1].datas[k]) :
                 LET name == e[1] \o "-" \o e[2]
                     key == keystore[1].datas[k].device \o "-" \o e[1]
                 IN /\ name \in DOMAIN task'[i].sensorMap
                    /\ key \in DOMAIN task'[i].sensorMap[name].sensors[e[1]]]_vars

\* C35: when the row insert of an AddSensor call fails, no row is added and
\* the persisted dictionary is not modified; and when the call returns an
\* error after its insert succeeded, the row it left does not need dictionary
\* entries that were never persisted.
C35_FailedAddSensorLeavesStore ==
  [][\A i \in 1..MaxWriters :
       /\ (writer[i].pc = "read" /\ writer'[i].pc = "done" /\ writer'[i].err # "")
          => rows' = rows /\ dict' = dict
       /\ (writer[i].pc = "inserted" /\ writer'[i].pc = "done" /\ writer'[i].err # "")
          => \A r \in rows' :
               r.timestamp = writer[i].s.timestamp
               => DOMAIN r.bluetooth \subseteq 1..Len(dict')]_vars

\* C36: a settings request that is written to an existing record leaves its
\* window state (hasData, timestamp, datas) as stored, and an accepted passive
\* sample, like the write-back of its parse, leaves deviceLocation, deviceGPS
\* and minimumPassive as stored, whatever the interleaving.
C36_SettingsAndWindowFrames ==
  [][keystore # <<>> =>
       /\ \A k \in 1..MaxSettings :
            (sreq[k].pc = "got" /\ sreq'[k].pc = "done" /\ sreq'[k].ok)
            => /\ keystore'[1].hasData = keystore[1].hasData
               /\ keystore'[1].timestamp = keystore[1].timestamp
               /\ keystore'[1].datas = keystore[1].datas
       /\ \A i \in 1..MaxReq :
            ( \/ req[i].pc = "got" /\ req'[i].pc = "done" /\ req'[i].ok
              \/ task[i].pc = "merged" /\ task'[i].pc = "written" )
            => /\ keystore'[1].deviceLocation = keystore[1].deviceLocation
               /\ keystore'[1].deviceGPS = keystore[1].deviceGPS
               /\ keystore'[1].minimumPassive = keystore[1].minimumPassive]_vars

\* C37: the fingerprints synthesized in one flush have pairwise distinct
\* timestamps; when the flush persists one of them the rows already stored
\* stay as they were, the row added is that fingerprint's own and its key is
\* the timestamp of no other fingerprint of the flush; every save that
\* reported success has its row.
C37_DistinctTimestampsInFlush ==
  [][\A i \in Transposed :
       LET fps == task[i].sensorMap
       IN /\ \A n, m \in DOMAIN fps :
               n # m => fps[n].timestamp # fps[m].timestamp
          /\ (task[i].pc = "emit" /\ task'[i] # task[i] /\ sensorsTable' # sensorsTable)
             => /\ sensorsTable \subseteq sensorsTable'
                /\ \E n \in task[i].left :
                     /\ \A r \in sensorsTable' \ sensorsTable :
                          /\ r.timestamp = fps[n].timestamp
                          /\ r.deviceid = n
                     /\ \A m \in DOMAIN fps \ {n} : \A r \in sensorsTable' :
                          r.timestamp = fps[m].timestamp => r.deviceid # n
                /\ LET c == calls'[Len(calls')]
                   IN /\ c.src = "parse" /\ c.addTried /\ c.addErr = ""
                      /\ \E r \in sensorsTable' : /\ r.timestamp = c.p.timestamp
                                                 /\ r.deviceid = c.p.device
     ]_vars

\* a flush made several fingerprints; two of them went to the store, the
\* first was refused by the backend and the second has its row
C37_Witness ==
  \E i \in Transposed :
    /\ Cardinality(DOMAIN task[i].sensorMap) >= 2
    /\ \E k, l \in 1..Len(calls) :
         /\ k < l
         /\ calls[k].src = "parse" /\ calls[l].src = "parse"
         /\ calls[k].p.device # calls[l].p.device
         /\ calls[k].addTried /\ calls[k].addErr # ""
         /\ calls[l].addTried /\ calls[l].addErr = ""
         /\ \E r \in sensorsTable : /\ r.timestamp = calls[l].p.timestamp
                                   /\ r.deviceid = calls[l].p.device

====
